---- MODULE Spec2Model ----
(***************************************************************************)
(* A model of the gapless Player of src/index.ts: the three track lists,  *)
(* the non-shuffled shadow list, the two HTMLAudioElement slots and the   *)
(* events the elements deliver back to the player.                        *)
(*                                                                         *)
(* A track is its id (1..NumTracks); Url(t) is the locator it carries.    *)
(* Every handler of the class is a function from player state to player   *)
(* state (a record with one field per member of Player and of             *)
(* Player.state); an action applies one handler to the current state.     *)
(* The observer callbacks (onStateChanged, onError, onTrackStart,         *)
(* onTrackEnd) are taken to be supplied by the host.                      *)
(***************************************************************************)
EXTENDS Integers, Sequences, FiniteSets, TLC

VARIABLES
  volume, isPaused, position, repeatMode, isShuffled, currentTrack,
  priorityTracks, nextTracks, previousTracks,
  isAudio1Active, audio1, audio2, nonShuffledNextTracks,
  released, agent,
  seconds, display

vars ==
  << volume, isPaused, position, repeatMode, isShuffled, currentTrack,
     priorityTracks, nextTracks, previousTracks,
     isAudio1Active, audio1, audio2, nonShuffledNextTracks,
     released, agent, seconds, display >>

----------------------------------------------------------------------------
(* Bounds of the model *)

\* number of distinct tracks the host owns
NumTracks == 2
\* longest priorityTracks the host builds up
MaxPriority == 2
\* longest previousTracks the model follows
MaxHistory == 2
\* released audio elements that can still act (playing, or holding a callback)
MaxReleased == 2

(* Program constants *)

\* RepeatMode
noRepeat == 0
repeatOnce == 1
repeatFull == 2
\* previousTrack rewinds the current track from this elapsed time on
RewindAfter == 3
\* setVolume divides a percentage by this
PercentScale == 100
\* currentTrack undefined, and an element with no src
NoTrack == 0

Tracks == 1..NumTracks
Url(t) == t
NoSrc == Url(NoTrack)
\* volumes the host uses: one the element accepts unscaled, one it does not
Volumes == {1, 50}
\* An element's volume is kept in hundredths: 1.0 is 100.
FullVolume == PercentScale

Min(a, b) == IF a < b THEN a ELSE b
Max(a, b) == IF a > b THEN a ELSE b

----------------------------------------------------------------------------
(* HTMLAudioElement, as far as the player uses it *)

\* a slot holding null
Null ==
  [ exists |-> FALSE, src |-> NoSrc, run |-> "paused", time |-> 0, loop |-> FALSE,
    vol |-> FullVolume, onerror |-> FALSE, onprogress |-> FALSE, onended |-> FALSE,
    oncanplaythrough |-> FALSE, endedQueued |-> FALSE, pending |-> FALSE ]

\* new Audio()
NewAudio == [Null EXCEPT !.exists = TRUE]

\* audio.pause(): pending play() promises are rejected
ElPause(a) == [a EXCEPT !.run = "paused", !.pending = FALSE]

\* audio.play(): playback restarts from 0 if it had ended; the promise is pending.
\* With no src there is nothing to play and the promise stays pending.
ElPlay(a) ==
  IF a.src = NoSrc THEN [a EXCEPT !.pending = TRUE]
  ELSE [a EXCEPT !.run = "playing", !.pending = TRUE,
                 !.time = IF a.run = "ended" THEN 0 ELSE a.time]

\* audio.currentTime = t: an element that had ended resumes from t
ElSeek(a, t) ==
  [a EXCEPT !.time = Min(Max(0, t), RewindAfter),
            !.run = IF a.run = "ended" THEN "playing" ELSE a.run]

\* audio.src = url: the element loads anew, paused at 0, its queued tasks dropped
ElSetSrc(a, url) ==
  [a EXCEPT !.src = url, !.run = "paused", !.time = 0,
            !.endedQueued = FALSE, !.pending = FALSE]

\* the four handlers set to null
ElClearCallbacks(a) ==
  [a EXCEPT !.onerror = FALSE, !.onprogress = FALSE, !.onended = FALSE,
            !.oncanplaythrough = FALSE]

\* audio.volume = v (v in hundredths): outside 0..1 the setter throws
VolumeThrows(v) == v < 0 \/ v > FullVolume

\* A released element can still act if it plays or holds a handler.
CanAct(a) ==
  /\ a.exists
  /\ \/ a.run = "playing"
     \/ a.pending
     \/ a.src # NoSrc /\ (a.onerror \/ a.onprogress \/ a.oncanplaythrough)
     \/ a.onended /\ (a.endedQueued \/ a.run = "playing")

\* What is kept of a released element: what it can still do.
Forgotten(a) ==
  [a EXCEPT !.time = 0, !.vol = FullVolume, !.loop = a.loop /\ a.run = "playing",
            !.src = IF a.src = NoSrc THEN NoSrc ELSE Url(1),
            !.endedQueued = a.endedQueued /\ a.onended]

Release(set, a) == IF CanAct(a) THEN set \cup {Forgotten(a)} ELSE set

----------------------------------------------------------------------------
(* The player: one record field per member of Player and of Player.state *)

\* { ...this.state }: the fields of PlayerState
PlaybackState(s) ==
  << s.volume, s.isPaused, s.position, s.repeatMode, s.isShuffled,
     s.currentTrack, s.priorityTracks, s.nextTracks, s.previousTracks >>

\* notified is the state onStateChanged was given last; when a handler starts
\* it is taken to be the state as it is.  failed tells that the handler has
\* called onError.
Self ==
  [ volume |-> volume, isPaused |-> isPaused, position |-> position,
    repeatMode |-> repeatMode, isShuffled |-> isShuffled,
    currentTrack |-> currentTrack, priorityTracks |-> priorityTracks,
    nextTracks |-> nextTracks, previousTracks |-> previousTracks,
    isAudio1Active |-> isAudio1Active, audio1 |-> audio1, audio2 |-> audio2,
    nonShuffledNextTracks |-> nonShuffledNextTracks, released |-> released,
    notified |->
      << volume, isPaused, position, repeatMode, isShuffled,
         currentTrack, priorityTracks, nextTracks, previousTracks >>,
    failed |-> FALSE, loads |-> 0 ]

\* the state after construction, for the volume the host passes
Constructed(v) ==
  [ volume |-> v, isPaused |-> TRUE, position |-> 0, repeatMode |-> noRepeat,
    isShuffled |-> FALSE, currentTrack |-> NoTrack, priorityTracks |-> <<>>,
    nextTracks |-> <<>>, previousTracks |-> <<>>, isAudio1Active |-> TRUE,
    audio1 |-> Null, audio2 |-> Null, nonShuffledNextTracks |-> <<>>,
    released |-> {} ]

activeAudioElement(s) == IF s.isAudio1Active THEN s.audio1 ELSE s.audio2

\* the element of the other slot, the buffer
bufferAudioElement(s) == IF s.isAudio1Active THEN s.audio2 ELSE s.audio1

WithActive(s, a) ==
  IF s.isAudio1Active THEN [s EXCEPT !.audio1 = a] ELSE [s EXCEPT !.audio2 = a]

WithBuffer(s, a) ==
  IF s.isAudio1Active THEN [s EXCEPT !.audio2 = a] ELSE [s EXCEPT !.audio1 = a]

\* slot = null: the element itself lives on while it can act
DropBuffer(s) ==
  [WithBuffer(s, Null) EXCEPT !.released = Release(s.released, bufferAudioElement(s))]

\* the observers' turn: onStateChanged({ ...this.state }) is given the state as
\* it is now; onError(ex) is given the error
triggerOnStateChange(s) == [s EXCEPT !.notified = PlaybackState(s)]

onError(s) == [s EXCEPT !.failed = TRUE]

\* an assignment to audio.src has started a load
Loading(s) == [s EXCEPT !.loads = @ + 1]

\* Array.prototype.slice(start, end) on a sequence (0-based, negative from the end)
SliceIndex(i, n) == IF i < 0 THEN Max(n + i, 0) ELSE Min(i, n)

Slice(seq, start, end) ==
  LET from == SliceIndex(start, Len(seq))
      to == SliceIndex(end, Len(seq))
  IN IF from < to THEN SubSeq(seq, from + 1, to) ELSE <<>>

\* Array.prototype.filter
RECURSIVE Without(_, _)
Without(seq, id) ==
  IF seq = <<>> THEN <<>>
  ELSE IF Head(seq) = id THEN Without(Tail(seq), id)
  ELSE <<Head(seq)>> \o Without(Tail(seq), id)

----------------------------------------------------------------------------
(* defaultShuffle: rnd[k] is Math.floor(Math.random() * k), drawn for          *)
(* currentIndex = k                                                             *)

Swap(seq, i, j) == [seq EXCEPT ![i] = seq[j], ![j] = seq[i]]

RECURSIVE ShuffleFrom(_, _, _)
ShuffleFrom(list, currentIndex, rnd) ==
  IF currentIndex = 0 THEN list
  ELSE ShuffleFrom(Swap(list, currentIndex, rnd[currentIndex] + 1), currentIndex - 1, rnd)

defaultShuffle(nonShuffled, rnd) == ShuffleFrom(nonShuffled, Len(nonShuffled), rnd)

\* the draws Math.random can give for a list of n tracks
Draws(n) == { r \in [1..n -> 0..(n - 1)] : \A k \in 1..n : r[k] < k }

----------------------------------------------------------------------------
(* The handlers of Player *)

setVolume(s, volumePercent) ==
  LET s1 == [s EXCEPT !.volume = volumePercent]
      s2 == IF s1.audio1.exists
            THEN [s1 EXCEPT !.audio1 = [s1.audio1 EXCEPT !.vol = volumePercent]]
            ELSE s1
      s3 == IF s2.audio2.exists
            THEN [s2 EXCEPT !.audio2 = [s2.audio2 EXCEPT !.vol = volumePercent]]
            ELSE s2
  IN triggerOnStateChange(s3)

\* audio.loop for a repeat mode
LoopFor(mode) == mode # noRepeat

setRepeatMode(s, mode) ==
  LET s1 == [s EXCEPT !.repeatMode = mode]
      audio == activeAudioElement(s1)
      s2 == IF audio.exists
            THEN WithActive(s1, [audio EXCEPT !.loop = LoopFor(mode)])
            ELSE s1
  IN triggerOnStateChange(s2)

\* shuffled is what the shuffle strategy returned for nonShuffledNextTracks
enableShuffle(s, shuffled) ==
  triggerOnStateChange([s EXCEPT !.isShuffled = TRUE, !.nextTracks = shuffled])

disableShuffle(s) ==
  triggerOnStateChange(
    [s EXCEPT !.isShuffled = FALSE, !.nextTracks = s.nonShuffledNextTracks])

pause(s) ==
  LET audio == activeAudioElement(s)
      s1 == IF audio.exists THEN WithActive(s, ElPause(audio)) ELSE s
  IN IF ~s1.isPaused
     THEN triggerOnStateChange([s1 EXCEPT !.isPaused = TRUE])
     ELSE s1

\* play() with an active element, up to its await: audio.play() is started
playActive(s) == WithActive(s, ElPlay(activeAudioElement(s)))

\* play() after its await: the promise resolved
playResolved(s) == triggerOnStateChange([s EXCEPT !.isPaused = FALSE])

\* a play() that gives up the track whose start was rejected
playRejectedSkipping(s) ==
  [onError(s) EXCEPT !.currentTrack = NoTrack,
                     !.previousTracks = IF s.currentTrack # NoTrack
                                        THEN <<s.currentTrack>> \o s.previousTracks
                                        ELSE s.previousTracks]

\* play() after its await: the promise was rejected
playRejected(s) == onError(s)

\* a playNextTrack that takes from nextTracks before priorityTracks
PickNextFromQueue(s, manualNextTrack) ==
  IF manualNextTrack # NoTrack THEN manualNextTrack
  ELSE IF s.nextTracks # <<>> THEN Head(s.nextTracks)
  ELSE IF s.priorityTracks # <<>> THEN Head(s.priorityTracks)
  ELSE NoTrack

\* the track playNextTrack picks
PickNext(s, manualNextTrack) ==
  IF manualNextTrack # NoTrack THEN manualNextTrack
  ELSE IF s.priorityTracks # <<>> THEN Head(s.priorityTracks)
  ELSE IF s.nextTracks # <<>> THEN Head(s.nextTracks)
  ELSE NoTrack

\* ... and the lists after it was shifted off
ShiftNext(s, manualNextTrack) ==
  IF manualNextTrack # NoTrack THEN s
  ELSE IF s.priorityTracks # <<>>
    THEN [s EXCEPT !.priorityTracks = Tail(s.priorityTracks)]
  ELSE IF s.nextTracks # <<>>
    THEN [s EXCEPT !.nextTracks = Tail(s.nextTracks),
                   !.nonShuffledNextTracks =
                      IF s.isShuffled THEN s.nonShuffledNextTracks
                      ELSE Tail(s.nextTracks)]
  ELSE s

\* a playNextTrack that pushes the current track whatever is played next
PushPreviousAlways(s, nextTrack) ==
  IF s.currentTrack # NoTrack
  THEN [s EXCEPT !.previousTracks = <<s.currentTrack>> \o s.previousTracks]
  ELSE s

\* a playNextTrack that pushes the current track only when another track follows
PushPreviousForNext(s, nextTrack) ==
  IF s.currentTrack # NoTrack /\ nextTrack # NoTrack /\ s.currentTrack # nextTrack
  THEN [s EXCEPT !.previousTracks = <<s.currentTrack>> \o s.previousTracks]
  ELSE s

\* the current track moves to the history unless it is the one to play
PushPrevious(s, nextTrack) ==
  IF s.currentTrack # NoTrack /\ (nextTrack = NoTrack \/ s.currentTrack # nextTrack)
  THEN [s EXCEPT !.previousTracks = <<s.currentTrack>> \o s.previousTracks]
  ELSE s

\* the element of the slot that becomes active, created if it was not buffered
ActivateSlot(s, nextTrack) ==
  LET s1 == [s EXCEPT !.currentTrack = nextTrack, !.isAudio1Active = ~s.isAudio1Active]
      audio == IF activeAudioElement(s1).exists THEN activeAudioElement(s1) ELSE NewAudio
  IN WithActive(s1, [audio EXCEPT !.onerror = TRUE, !.oncanplaythrough = TRUE,
                                  !.onprogress = TRUE, !.onended = TRUE])

\* audio.volume = this.state.volume, in hundredths
NativeVolume(s) == s.volume * PercentScale

\* audio.volume, audio.src and audio.currentTime of the element that starts
LoadActive(s, nextTrack) ==
  LET audio == [activeAudioElement(s) EXCEPT !.vol = NativeVolume(s)]
  IN Loading(WithActive(s, ElSeek(ElSetSrc(audio, Url(nextTrack)), 0)))

\* "Destroy the previous track audio element"
DestroyPrevious(s) ==
  IF bufferAudioElement(s).exists
  THEN DropBuffer(WithBuffer(s, ElClearCallbacks(bufferAudioElement(s))))
  ELSE s

playNextTrack(s, manualNextTrack) ==
  LET nextTrack == PickNext(s, manualNextTrack)
      s1 == PushPrevious(ShiftNext(s, manualNextTrack), nextTrack)
  IN IF nextTrack # NoTrack
     THEN LET s2 == ActivateSlot(s1, nextTrack)
          IN IF VolumeThrows(NativeVolume(s2))
             THEN onError(s2)
             ELSE LET s3 == LoadActive(s2, nextTrack)
                      s4 == IF manualNextTrack = NoTrack THEN DestroyPrevious(s3) ELSE s3
                  IN playActive(s4)
     ELSE IF s1.currentTrack # NoTrack
          THEN triggerOnStateChange([s1 EXCEPT !.currentTrack = NoTrack])
          ELSE s1

play(s) ==
  IF activeAudioElement(s).exists
  THEN playActive(s)
  ELSE playNextTrack(s, s.currentTrack)

togglePlay(s) == IF s.isPaused THEN play(s) ELSE pause(s)

seek(s, pos) ==
  LET audio == activeAudioElement(s)
  IN IF audio.exists
     THEN triggerOnStateChange(WithActive(s, ElSeek(audio, Max(0, pos))))
     ELSE s

\* a previousTrack that rewinds only after more than RewindAfter seconds
RewindsLate(s, audio) == audio.time > RewindAfter \/ s.previousTracks = <<>>

\* previousTrack rewinds the current track instead of going back
Rewinds(s, audio) == audio.time >= RewindAfter \/ s.previousTracks = <<>>

\* a previousTrack that does not put the current track back
GoBackDropsCurrent(s) ==
  [s EXCEPT !.currentTrack = Head(s.previousTracks),
            !.previousTracks = Tail(s.previousTracks)]

\* the history entry becomes current, the current track is put back in front
GoBack(s) ==
  LET s1 == IF s.currentTrack # NoTrack
            THEN [s EXCEPT !.nextTracks = <<s.currentTrack>> \o s.nextTracks]
            ELSE s
  IN [s1 EXCEPT !.currentTrack = Head(s.previousTracks),
                !.previousTracks = Tail(s.previousTracks)]

previousTrack(s) ==
  LET audio == ElPause(activeAudioElement(s))
  IN IF activeAudioElement(s).exists /\ Rewinds(s, audio)
     THEN play(WithActive(s, ElSeek(audio, 0)))
     ELSE LET s1 == IF activeAudioElement(s).exists
                    THEN WithActive(s, ElSeek([audio EXCEPT !.oncanplaythrough = FALSE], 0))
                    ELSE s
          IN IF s1.previousTracks # <<>>
             THEN LET s2 == GoBack(s1) IN playNextTrack(s2, s2.currentTrack)
             ELSE s1

nextTrack(s) ==
  LET audio == activeAudioElement(s)
      s1 == IF audio.exists
            THEN [WithActive(s, ElPause(audio)) EXCEPT !.isPaused = TRUE]
            ELSE s
  IN playNextTrack(s1, NoTrack)

\* the track bufferNextTrack would load
BufferCandidate(s) ==
  IF s.priorityTracks # <<>> THEN Head(s.priorityTracks)
  ELSE IF s.nextTracks # <<>> THEN Head(s.nextTracks)
  ELSE NoTrack

bufferNextTrack(s) ==
  LET candidate == BufferCandidate(s)
  IN IF candidate = NoTrack THEN s
     ELSE LET s1 == IF bufferAudioElement(s).exists
                       /\ bufferAudioElement(s).src # Url(candidate)
                    THEN DestroyPrevious(s)
                    ELSE s
              buffer == IF bufferAudioElement(s1).exists
                        THEN bufferAudioElement(s1) ELSE NewAudio
          IN Loading(WithBuffer(s1, ElSetSrc([buffer EXCEPT !.onerror = TRUE],
                                              Url(candidate))))

queuePriorityTracks(s, tracks) ==
  LET s1 == [s EXCEPT !.priorityTracks = s.priorityTracks \o tracks]
      s2 == IF s.priorityTracks = <<>> /\ bufferAudioElement(s1).exists
            THEN bufferNextTrack(s1)
            ELSE s1
  IN triggerOnStateChange(s2)

removePriorityTrack(s, id) ==
  triggerOnStateChange([s EXCEPT !.priorityTracks = Without(s.priorityTracks, id)])

clearPriorityTracks(s) == triggerOnStateChange([s EXCEPT !.priorityTracks = <<>>])

\* the tracks playTracks assigns to previousTracks
PreviousOf(tracks, playIndex) ==
  IF playIndex > 0 /\ playIndex < Len(tracks)
  THEN Slice(tracks, 0, playIndex - 1)
  ELSE <<>>

\* this.audio1 = null; this.audio2 = null: both elements are let go as they are
ForgetElements(s) ==
  [s EXCEPT !.audio1 = Null, !.audio2 = Null, !.isAudio1Active = TRUE,
            !.released = Release(Release(s.released, s.audio1), s.audio2)]

playTracks(s, tracks, playIndex) ==
  LET audio == activeAudioElement(s)
      s1 == IF audio.exists THEN WithActive(s, ElPause(audio)) ELSE s
      s2 == [ForgetElements(s1) EXCEPT
               !.priorityTracks = <<>>,
               !.previousTracks = PreviousOf(tracks, playIndex),
               !.nextTracks = Slice(tracks, playIndex, Len(tracks))]
  IN play(s2)

onPlayerProgress(s) ==
  LET audio == activeAudioElement(s)
  IN triggerOnStateChange(
       [s EXCEPT !.position = IF audio.exists THEN audio.time ELSE 0])

\* an onPlayerTrackEnd that advances after a repeated track as well
onPlayerTrackEndAdvancing(s) ==
  CASE s.repeatMode = repeatOnce -> playNextTrack(setRepeatMode(s, noRepeat), NoTrack)
    [] s.repeatMode = noRepeat -> playNextTrack(s, NoTrack)
    [] OTHER -> s

onPlayerTrackEnd(s) ==
  CASE s.repeatMode = repeatOnce -> setRepeatMode(s, noRepeat)
    [] s.repeatMode = noRepeat -> playNextTrack(s, NoTrack)
    [] OTHER -> s

----------------------------------------------------------------------------
(* getTimeDisplay.  A number is finite (an integer n here) or one of NaN,    *)
(* Infinity and -Infinity.                                                    *)

SecondsPerHour == 3600
SecondsPerMinute == 60
\* below this a part is padded with "0"
TwoDigits == 10

Finite(n) == [kind |-> "finite", n |-> n]
NaN == [kind |-> "NaN", n |-> 0]
PosInfinity == [kind |-> "Infinity", n |-> 0]
NegInfinity == [kind |-> "-Infinity", n |-> 0]

\* Number.isFinite(x)
isFinite(x) == x.kind = "finite"

\* x >= n: false for NaN and -Infinity, true for Infinity
AtLeast(x, n) == IF isFinite(x) THEN x.n >= n ELSE x.kind = "Infinity"

\* `${Math.floor(x / d)}` for an x that is at least d
FloorDivText(x, d) == IF isFinite(x) THEN ToString(x.n \div d) ELSE x.kind

getTimeDisplay(sec) ==
  LET remainingTime0 == IF isFinite(sec) THEN sec.n ELSE 0
      hours == AtLeast(sec, SecondsPerHour)
      remainingTime1 == IF hours THEN remainingTime0 % SecondsPerHour ELSE remainingTime0
      result1 == IF hours THEN FloorDivText(sec, SecondsPerHour) \o ":" ELSE ""
      minutes == remainingTime1 \div SecondsPerMinute
      remainingTime == remainingTime1 % SecondsPerMinute
      result2 == IF result1 # "" /\ minutes < TwoDigits THEN result1 \o "0" ELSE result1
      result3 == result2 \o ToString(minutes) \o ":"
      result4 == IF remainingTime < TwoDigits THEN result3 \o "0" ELSE result3
  IN result4 \o ToString(remainingTime)

----------------------------------------------------------------------------
(* What the host passes in *)

\* the lists of distinct tracks of the given length
RECURSIVE ListsOfLen(_)
ListsOfLen(n) ==
  IF n = 0 THEN {<<>>}
  ELSE UNION { { Append(l, t) : t \in Tracks \ { l[i] : i \in 1..Len(l) } } :
               l \in ListsOfLen(n - 1) }

\* playTracks is given the host's tracks in their order, or the first few of them
TrackLists == { [i \in 1..n |-> i] : n \in 0..NumTracks }

\* queuePriorityTracks is given one track or two; the host keeps the ids of the
\* three lists unique, so it queues no track that is in one of them
Listed(s) ==
  { s.priorityTracks[i] : i \in 1..Len(s.priorityTracks) }
    \cup { s.nextTracks[i] : i \in 1..Len(s.nextTracks) }
    \cup { s.previousTracks[i] : i \in 1..Len(s.previousTracks) }

PriorityLists(s) ==
  { l \in ListsOfLen(1) \cup ListsOfLen(2) :
      \A i \in 1..Len(l) : l[i] \notin Listed(s) }

SeekPositions == {-1, 0, RewindAfter}

----------------------------------------------------------------------------
(* The state machine *)

\* The user agent either dispatches every event as it occurs and collects a
\* released element as soon as it has stopped ("prompt"), or may leave an event
\* queued behind a call of the host and a released element alive ("any").
Agents == {"prompt", "any"}

\* a released element the user agent cannot collect yet
Busy(r) == r.run = "playing" \/ r.pending \/ r.endedQueued

\* new Player({ volume: v }) under the user agent a
InitWith(a, v) ==
  /\ agent = a
  /\ seconds = Finite(0)
  /\ display = ""
  /\ volume = v
  /\ isPaused = Constructed(v).isPaused
  /\ position = Constructed(v).position
  /\ repeatMode = Constructed(v).repeatMode
  /\ isShuffled = Constructed(v).isShuffled
  /\ currentTrack = Constructed(v).currentTrack
  /\ priorityTracks = Constructed(v).priorityTracks
  /\ nextTracks = Constructed(v).nextTracks
  /\ previousTracks = Constructed(v).previousTracks
  /\ isAudio1Active = Constructed(v).isAudio1Active
  /\ audio1 = Constructed(v).audio1
  /\ audio2 = Constructed(v).audio2
  /\ nonShuffledNextTracks = Constructed(v).nonShuffledNextTracks
  /\ released = Constructed(v).released

InitFor(a) == \E v \in Volumes : InitWith(a, v)

\* the player is constructed with a volume every element accepts
InitInRange ==
  \E v \in { w \in Volumes : ~VolumeThrows(w * PercentScale) } : InitWith("prompt", v)

Init == InitFor("prompt")

InitAny == InitFor("any")

\* the lists and the released elements stay within the bounds of the model
Within(s) ==
  /\ Len(s.priorityTracks) <= MaxPriority
  /\ Len(s.previousTracks) <= MaxHistory
  /\ Len(s.nextTracks) <= NumTracks
  /\ Cardinality(s.released) <= MaxReleased

\* the members of the player and the elements are those of s
Assign(s) ==
  /\ volume' = s.volume
  /\ isPaused' = s.isPaused
  /\ position' = s.position
  /\ repeatMode' = s.repeatMode
  /\ isShuffled' = s.isShuffled
  /\ currentTrack' = s.currentTrack
  /\ priorityTracks' = s.priorityTracks
  /\ nextTracks' = s.nextTracks
  /\ previousTracks' = s.previousTracks
  /\ isAudio1Active' = s.isAudio1Active
  /\ audio1' = s.audio1
  /\ audio2' = s.audio2
  /\ nonShuffledNextTracks' = s.nonShuffledNextTracks
  /\ released' = IF agent = "prompt" THEN { r \in s.released : Busy(r) } ELSE s.released
  /\ agent' = agent
  /\ UNCHANGED << seconds, display >>

\* a handler has run to its end (or to its await) and left the state s
Becomes(s) == Within(s) /\ Assign(s)

(* The host's calls *)

SetVolume == \E v \in Volumes : Becomes(setVolume(Self, v))

SetRepeatMode ==
  \E mode \in {noRepeat, repeatOnce, repeatFull} :
    Becomes(setRepeatMode(Self, mode))

EnableShuffle ==
  \E rnd \in Draws(Len(nonShuffledNextTracks)) :
    Becomes(enableShuffle(Self, defaultShuffle(nonShuffledNextTracks, rnd)))

DisableShuffle == Becomes(disableShuffle(Self))

Pause == Becomes(pause(Self))

Play == Becomes(play(Self))

TogglePlay == Becomes(togglePlay(Self))

Seek == \E pos \in SeekPositions : Becomes(seek(Self, pos))

PreviousTrack == Becomes(previousTrack(Self))

NextTrack == Becomes(nextTrack(Self))

QueuePriorityTracks ==
  \E tracks \in PriorityLists(Self) :
    Becomes(queuePriorityTracks(Self, tracks))

RemovePriorityTrack ==
  \E id \in Tracks : Becomes(removePriorityTrack(Self, id))

ClearPriorityTracks == Becomes(clearPriorityTracks(Self))

PlayTracks ==
  \E tracks \in TrackLists : \E playIndex \in -1..Len(tracks) :
    Becomes(playTracks(Self, tracks, playIndex))

(* What the elements of the two slots do *)

Slots == {1, 2}

SlotAudio(s, k) == IF k = 1 THEN s.audio1 ELSE s.audio2

WithSlot(s, k, a) == IF k = 1 THEN [s EXCEPT !.audio1 = a] ELSE [s EXCEPT !.audio2 = a]

IsActiveSlot(s, k) == s.isAudio1Active <=> (k = 1)

\* playback advances to the time from which previousTrack rewinds
Tick ==
  \E k \in Slots :
    LET a == SlotAudio(Self, k)
    IN /\ a.exists /\ a.run = "playing" /\ ~a.pending /\ a.time < RewindAfter
       /\ Becomes(WithSlot(Self, k, [a EXCEPT !.time = RewindAfter]))

\* playback reaches the end of the resource: it loops, or stops and queues "ended"
ElReachEnd(a) ==
  IF a.loop THEN [a EXCEPT !.time = 0]
  ELSE [a EXCEPT !.run = "ended", !.endedQueued = TRUE]

ReachEnd ==
  \E k \in Slots :
    LET a == SlotAudio(Self, k)
    IN /\ a.exists /\ a.run = "playing" /\ ~a.pending
       /\ Becomes(WithSlot(Self, k, ElReachEnd(a)))

\* the queued "ended" event is dispatched to audio.onended
Ended ==
  \E k \in Slots :
    LET a == SlotAudio(Self, k)
        s == WithSlot(Self, k, [a EXCEPT !.endedQueued = FALSE])
    IN /\ a.exists /\ a.endedQueued
       /\ Becomes(IF a.onended THEN onPlayerTrackEnd(s) ELSE s)

\* playback reaches the end and "ended" is dispatched at once
Ends ==
  \E k \in Slots :
    LET a == SlotAudio(Self, k)
        s == WithSlot(Self, k, [ElReachEnd(a) EXCEPT !.endedQueued = FALSE])
    IN /\ a.exists /\ a.run = "playing" /\ ~a.pending
       /\ Becomes(IF a.onended /\ ~a.loop THEN onPlayerTrackEnd(s) ELSE s)

CanPlayThrough ==
  \E k \in Slots :
    LET a == SlotAudio(Self, k)
    IN /\ a.exists /\ a.src # NoSrc /\ a.oncanplaythrough
       /\ Becomes(bufferNextTrack(Self))

Progress ==
  \E k \in Slots :
    LET a == SlotAudio(Self, k)
    IN /\ a.exists /\ a.src # NoSrc /\ a.onprogress
       /\ Becomes(onPlayerProgress(Self))

ErrorEvent ==
  \E k \in Slots :
    LET a == SlotAudio(Self, k)
    IN /\ a.exists /\ a.src # NoSrc /\ a.onerror
       /\ Becomes(onError(Self))

\* the promise of audio.play() resolves: playback has started
PlayResolved ==
  \E k \in Slots :
    LET a == SlotAudio(Self, k)
    IN /\ a.exists /\ a.pending /\ a.run = "playing"
       /\ Becomes(playResolved(WithSlot(Self, k, [a EXCEPT !.pending = FALSE])))

\* the promise of audio.play() is rejected: the element does not play
PlayRejected ==
  \E k \in Slots :
    LET a == SlotAudio(Self, k)
    IN /\ a.exists /\ a.pending
       /\ Becomes(playRejected(WithSlot(Self, k, ElPause(a))))

(* What a released element does *)

\* the released element r has become a
Left(s, r, a) == [s EXCEPT !.released = Release(s.released \ {r}, a)]

ReleasedReachEnd ==
  \E r \in released :
    /\ r.run = "playing" /\ ~r.pending
    /\ Becomes(Left(Self, r, ElReachEnd(r)))

ReleasedEnded ==
  \E r \in released :
    /\ r.endedQueued /\ r.onended
    /\ Becomes(onPlayerTrackEnd(Left(Self, r, [r EXCEPT !.endedQueued = FALSE])))

ReleasedCanPlayThrough ==
  \E r \in released :
    /\ r.src # NoSrc /\ r.oncanplaythrough
    /\ Becomes(bufferNextTrack(Self))

ReleasedProgress ==
  \E r \in released :
    /\ r.src # NoSrc /\ r.onprogress
    /\ Becomes(onPlayerProgress(Self))

ReleasedError ==
  \E r \in released :
    /\ r.src # NoSrc /\ r.onerror
    /\ Becomes(onError(Self))

ReleasedPlayResolved ==
  \E r \in released :
    /\ r.pending /\ r.run = "playing"
    /\ Becomes(playResolved(Left(Self, r, [r EXCEPT !.pending = FALSE])))

ReleasedPlayRejected ==
  \E r \in released :
    /\ r.pending
    /\ Becomes(playRejected(Left(Self, r, ElPause(r))))

\* a released element that holds no more than handlers is collected
Collected ==
  \E r \in released :
    /\ r.run # "playing" /\ ~r.pending
    /\ Becomes([Self EXCEPT !.released = released \ {r}])

\* the host plays lists, skips, pauses and seeks
Transport ==
  \/ PlayTracks \/ Play \/ Pause \/ TogglePlay \/ Seek \/ PreviousTrack \/ NextTrack

\* the host uses the priority queue and shuffle
Queueing ==
  \/ QueuePriorityTracks \/ RemovePriorityTrack \/ ClearPriorityTracks
  \/ EnableShuffle \/ DisableShuffle

\* the elements play, load and end; an event may stay queued, a released
\* element may live on
Playback ==
  \/ Tick \/ ReachEnd \/ Ended \/ CanPlayThrough \/ PlayResolved
  \/ ReleasedReachEnd \/ ReleasedEnded \/ ReleasedCanPlayThrough
  \/ ReleasedPlayResolved \/ Collected

\* the elements play, load and end, every event dispatched as it occurs
PromptPlayback == Tick \/ Ends \/ CanPlayThrough \/ PlayResolved

\* the elements report progress and failures
Reports == Progress \/ ErrorEvent \/ PlayRejected

ReleasedReports == ReleasedProgress \/ ReleasedError \/ ReleasedPlayRejected

\* A host that queues priority tracks and shuffles, with a prompt user agent.
Next ==
  \/ PlayTracks \/ Play \/ Pause \/ PreviousTrack \/ NextTrack
  \/ Queueing \/ PromptPlayback

Spec == InitInRange /\ [][Next]_vars

\* A host that plays lists and changes the volume, with a prompt user agent.
NextSettings == Transport \/ SetVolume \/ PromptPlayback \/ Reports

SpecSettings == Init /\ [][NextSettings]_vars

\* A host that plays lists and changes the repeat mode, with a prompt user agent.
NextRepeat == Transport \/ SetRepeatMode \/ PromptPlayback \/ Reports

SpecRepeat == InitInRange /\ [][NextRepeat]_vars

\* A host that plays lists, with any user agent.
NextAgent == Transport \/ Playback \/ Reports \/ ReleasedReports

SpecAgent == InitAny /\ [][NextAgent]_vars

\* longest duration that is formatted
MaxSeconds == 3725

\* what getTimeDisplay is given
Durations == { Finite(n) : n \in 0..MaxSeconds } \cup {NaN, PosInfinity, NegInfinity}

\* A host that formats a duration.
InitDisplay ==
  /\ agent = "prompt"
  /\ seconds \in Durations
  /\ display = ""
  /\ volume = 1
  /\ isPaused = Constructed(1).isPaused
  /\ position = Constructed(1).position
  /\ repeatMode = Constructed(1).repeatMode
  /\ isShuffled = Constructed(1).isShuffled
  /\ currentTrack = Constructed(1).currentTrack
  /\ priorityTracks = Constructed(1).priorityTracks
  /\ nextTracks = Constructed(1).nextTracks
  /\ previousTracks = Constructed(1).previousTracks
  /\ isAudio1Active = Constructed(1).isAudio1Active
  /\ audio1 = Constructed(1).audio1
  /\ audio2 = Constructed(1).audio2
  /\ nonShuffledNextTracks = Constructed(1).nonShuffledNextTracks
  /\ released = Constructed(1).released

GetTimeDisplay ==
  /\ display' = getTimeDisplay(seconds)
  /\ UNCHANGED << volume, isPaused, position, repeatMode, isShuffled, currentTrack,
                  priorityTracks, nextTracks, previousTracks, isAudio1Active,
                  audio1, audio2, nonShuffledNextTracks, released, agent, seconds >>

NextDisplay == GetTimeDisplay

SpecDisplay == InitDisplay /\ [][NextDisplay]_vars

\* nothing has been played on the player yet
Fresh ==
  /\ ~audio1.exists /\ ~audio2.exists
  /\ currentTrack = NoTrack
  /\ priorityTracks = << >> /\ nextTracks = << >> /\ previousTracks = << >>

\* longest list that is played from its start to its end
MaxRun == 5

\* the lists the host may start
RunLists == { [i \in 1..n |-> i] : n \in 0..MaxRun }

\* playTracks(tracks, 0) on a fresh player
StartList ==
  /\ Fresh
  /\ \E tracks \in RunLists : Assign(playTracks(Self, tracks, 0))

\* the promise of audio.play() resolves
RunPlayResolved ==
  \E k \in Slots :
    LET a == SlotAudio(Self, k)
    IN /\ a.exists /\ a.pending /\ a.run = "playing"
       /\ Assign(playResolved(WithSlot(Self, k, [a EXCEPT !.pending = FALSE])))

\* the element of slot k plays and its play() has resolved
Sounding(k) ==
  LET a == SlotAudio(Self, k) IN a.exists /\ a.run = "playing" /\ ~a.pending

\* playback reaches the end and "ended" is dispatched
RunEnds ==
  \E k \in Slots :
    LET a == SlotAudio(Self, k)
        s == WithSlot(Self, k, [ElReachEnd(a) EXCEPT !.endedQueued = FALSE])
    IN /\ Sounding(k)
       /\ Assign(IF a.onended /\ ~a.loop THEN onPlayerTrackEnd(s) ELSE s)

RunCanPlayThrough ==
  \E k \in Slots :
    LET a == SlotAudio(Self, k)
    IN /\ a.exists /\ a.src # NoSrc /\ a.oncanplaythrough
       /\ Assign(bufferNextTrack(Self))

RunProgress ==
  \E k \in Slots :
    LET a == SlotAudio(Self, k)
    IN /\ a.exists /\ a.src # NoSrc /\ a.onprogress
       /\ Assign(onPlayerProgress(Self))

RunTick ==
  \E k \in Slots :
    LET a == SlotAudio(Self, k)
    IN /\ Sounding(k) /\ a.time < RewindAfter
       /\ Assign(WithSlot(Self, k, [a EXCEPT !.time = RewindAfter]))

\* A host that plays one list from its start and then leaves the player alone.
NextRun ==
  \/ StartList \/ RunPlayResolved \/ RunEnds
  \/ RunCanPlayThrough \/ RunProgress \/ RunTick

\* Every play() succeeds, and every element that plays comes to its end: the
\* latter is weak fairness of RunEnds, which is enabled exactly when an element
\* is sounding, stated on the states.
SpecRun ==
  /\ Init
  /\ [][NextRun]_vars
  /\ WF_vars(RunPlayResolved)
  /\ \A k \in Slots : []<>(~Sounding(k))

----------------------------------------------------------------------------
(* Properties.  The effect of a call or of an event is stated for the state *)
(* its handler leaves when it runs in the current state.                    *)

Active == activeAudioElement(Self)

Standby == bufferAudioElement(Self)

\* priorityTracks is played before nextTracks
Upcoming == priorityTracks \o nextTracks

\* the active element is about to end while nothing repeats
EndsNow ==
  /\ Active.exists /\ Active.run = "playing" /\ ~Active.pending
  /\ Active.onended /\ ~Active.loop
  /\ repeatMode = noRepeat

\* ... and the state its onended handler leaves
AfterEnded ==
  onPlayerTrackEnd(WithActive(Self, [ElReachEnd(Active) EXCEPT !.endedQueued = FALSE]))

\* in s the head of the upcoming tracks is current and has left its list
TakesHead(s) ==
  /\ s.currentTrack = Head(Upcoming)
  /\ IF priorityTracks # <<>>
     THEN s.priorityTracks = Tail(priorityTracks) /\ s.nextTracks = nextTracks
     ELSE s.priorityTracks = priorityTracks /\ s.nextTracks = Tail(nextTracks)

\* C1, as stated: when the active element ends while repeatMode is none and a
\* track is upcoming, the head of priorityTracks (else of nextTracks) becomes
\* currentTrack and leaves its list, the other list is kept, and the former
\* currentTrack is put at the front of previousTracks.
C1_EndedPushesCurrent ==
  EndsNow /\ Upcoming # <<>> /\ currentTrack # NoTrack
    => /\ TakesHead(AfterEnded)
       /\ AfterEnded.previousTracks = <<currentTrack>> \o previousTracks

\* C1: when the active element ends while repeatMode is none and a track is
\* upcoming, the head of priorityTracks (else of nextTracks) becomes currentTrack
\* and leaves its list, the other list is kept, and the former currentTrack is
\* put at the front of previousTracks unless it has the id of the track that
\* becomes current (or there was none); then previousTracks is kept.
C1_EndedAdvances ==
  EndsNow /\ Upcoming # <<>>
    => /\ TakesHead(AfterEnded)
       /\ AfterEnded.previousTracks =
            IF currentTrack # NoTrack /\ currentTrack # Head(Upcoming)
            THEN <<currentTrack>> \o previousTracks
            ELSE previousTracks

\* track 1 of the list 1, 2 is about to end: it goes to the history and 2 plays
C1_FirstTrackEnds ==
  /\ EndsNow
  /\ currentTrack = 1 /\ nextTracks = <<2>>
  /\ priorityTracks = <<>> /\ previousTracks = <<>>
  /\ Within(AfterEnded)
  /\ AfterEnded.currentTrack = 2
  /\ AfterEnded.previousTracks = <<1>>
  /\ AfterEnded.nextTracks = <<>>

\* C2: whenever priorityTracks is not empty, nextTrack() and the end of the
\* active element with repeatMode none make the head of priorityTracks the
\* currentTrack and leave nextTracks alone, shuffled or not; enableShuffle and
\* disableShuffle leave priorityTracks as it is, and queuePriorityTracks appends
\* to it, so that priority tracks are played in the order they were queued.
C2_PriorityFirst ==
  /\ priorityTracks # <<>>
       => /\ nextTrack(Self).currentTrack = Head(priorityTracks)
          /\ nextTrack(Self).priorityTracks = Tail(priorityTracks)
          /\ nextTrack(Self).nextTracks = nextTracks
          /\ EndsNow
               => /\ AfterEnded.currentTrack = Head(priorityTracks)
                  /\ AfterEnded.priorityTracks = Tail(priorityTracks)
                  /\ AfterEnded.nextTracks = nextTracks
  /\ disableShuffle(Self).priorityTracks = priorityTracks
  /\ \A rnd \in Draws(Len(nonShuffledNextTracks)) :
       enableShuffle(Self, defaultShuffle(nonShuffledNextTracks, rnd)).priorityTracks
         = priorityTracks
  /\ \A tracks \in PriorityLists(Self) :
       queuePriorityTracks(Self, tracks).priorityTracks = priorityTracks \o tracks

\* shuffled, with a priority track queued in front of another next track:
\* nextTrack() plays the priority track
C2_SkipsToPriority ==
  /\ isShuffled
  /\ priorityTracks # <<>> /\ nextTracks # <<>>
  /\ Head(priorityTracks) # Head(nextTracks)
  /\ Within(nextTrack(Self))
  /\ nextTrack(Self).currentTrack = Head(priorityTracks)
  /\ nextTrack(Self).nextTracks = nextTracks

\* number of enableShuffle and disableShuffle calls followed
MaxShuffleCalls == 2

\* every disableShuffle among the next n calls leaves nextTracks equal to L
RECURSIVE RestoresAfter(_, _, _)
RestoresAfter(s, L, n) ==
  \/ n = 0
  \/ /\ disableShuffle(s).nextTracks = L
     /\ RestoresAfter(disableShuffle(s), L, n - 1)
     /\ \A rnd \in Draws(Len(s.nonShuffledNextTracks)) :
          RestoresAfter(enableShuffle(s, defaultShuffle(s.nonShuffledNextTracks, rnd)),
                        L, n - 1)

\* C3: from an unshuffled player whose nextTracks is L, every sequence of
\* enableShuffle and disableShuffle calls leaves, after each disableShuffle,
\* nextTracks equal to L in the original order.
C3_DisableRestores == ~isShuffled => RestoresAfter(Self, nextTracks, MaxShuffleCalls)

\* the index playTracks starts at: 0 when playIndex is out of range
StartOf(tracks, playIndex) ==
  IF playIndex >= 0 /\ playIndex < Len(tracks) THEN playIndex ELSE 0

\* C4: from every reachable state, playTracks(tracks, playIndex) with a list
\* that is not empty makes the track at playIndex (at 0 when playIndex is out of
\* range) the currentTrack, leaves nextTracks equal to the tracks after it, and
\* empties priorityTracks.
C4_PlayTracksStarts ==
  \A tracks \in TrackLists \ {<<>>} : \A playIndex \in -1..Len(tracks) :
    LET s == playTracks(Self, tracks, playIndex)
    IN /\ s.currentTrack = tracks[StartOf(tracks, playIndex) + 1]
       /\ s.nextTracks = SubSeq(tracks, StartOf(tracks, playIndex) + 2, Len(tracks))
       /\ s.priorityTracks = <<>>

\* C5: playTracks(tracks, playIndex) with 1 <= playIndex <= Len(tracks) - 1
\* sets previousTracks to the first playIndex tracks in their order; with any
\* other playIndex it sets previousTracks to the empty list.
C5_PlayTracksPrevious ==
  \A tracks \in TrackLists : \A playIndex \in -1..Len(tracks) :
    playTracks(Self, tracks, playIndex).previousTracks =
      IF playIndex >= 1 /\ playIndex <= Len(tracks) - 1
      THEN SubSeq(tracks, 1, playIndex)
      ELSE <<>>

\* C6: previousTrack() while the active element is below 3 seconds and
\* previousTracks is not empty makes the first entry of previousTracks the
\* currentTrack, removes it from previousTracks, and puts the prior currentTrack
\* (if there was one) at the front of nextTracks; nothing is added to
\* previousTracks and priorityTracks is unchanged.
C6_PreviousGoesBack ==
  Active.exists /\ Active.time < RewindAfter /\ previousTracks # <<>>
    => LET s == previousTrack(Self)
       IN /\ s.currentTrack = Head(previousTracks)
          /\ s.previousTracks = Tail(previousTracks)
          /\ s.nextTracks =
               IF currentTrack # NoTrack THEN <<currentTrack>> \o nextTracks
               ELSE nextTracks
          /\ s.priorityTracks = priorityTracks

\* track 2 has just started after track 1: previousTrack() goes back to 1
C6_GoesBackToFirst ==
  /\ Active.exists /\ Active.run = "playing" /\ Active.time < RewindAfter
  /\ currentTrack = 2 /\ previousTracks = <<1>>
  /\ Within(previousTrack(Self))
  /\ previousTrack(Self).currentTrack = 1
  /\ previousTrack(Self).nextTracks = <<2>> \o nextTracks
  /\ previousTrack(Self).previousTracks = <<>>

\* C7: previousTrack() while the active element is at 3 seconds or more, or
\* while previousTracks is empty, sets the position of the active element to 0
\* and plays it (audio.play() is awaited; an element with a source is playing),
\* and leaves currentTrack, priorityTracks, nextTracks, previousTracks and
\* isAudio1Active unchanged.
C7_PreviousRewinds ==
  Active.exists /\ (Active.time >= RewindAfter \/ previousTracks = <<>>)
    => LET s == previousTrack(Self)
       IN /\ activeAudioElement(s).time = 0
          /\ activeAudioElement(s).pending
          /\ Active.src # NoSrc => activeAudioElement(s).run = "playing"
          /\ s.currentTrack = currentTrack
          /\ s.priorityTracks = priorityTracks
          /\ s.nextTracks = nextTracks
          /\ s.previousTracks = previousTracks
          /\ s.isAudio1Active = isAudio1Active

\* track 2 has played for RewindAfter seconds after track 1: previousTrack()
\* starts it again
C7_RewindsSecond ==
  /\ Active.exists /\ Active.run = "playing" /\ Active.time >= RewindAfter
  /\ currentTrack = 2 /\ previousTracks = <<1>>
  /\ Within(previousTrack(Self))
  /\ activeAudioElement(previousTrack(Self)).time = 0
  /\ activeAudioElement(previousTrack(Self)).run = "playing"
  /\ previousTrack(Self).currentTrack = 2
  /\ previousTrack(Self).previousTracks = <<1>>

\* the buffer holds the track to play and the active element plays
BuffersNext ==
  /\ Active.exists /\ Active.run = "playing"
  /\ Standby.exists /\ BufferCandidate(Self) # NoTrack
  /\ Standby.src = Url(BufferCandidate(Self))

\* C8: nextTrack() while the buffer slot holds the next track and the active
\* track has not ended makes the buffer slot the active one, playing the next
\* track; the slot that was active is emptied, its element has lost its four
\* handlers, and no released element is left that can call the player.
C8_SkipSwapsSlots ==
  BuffersNext
    => LET s == nextTrack(Self)
       IN /\ s.isAudio1Active = ~isAudio1Active
          /\ activeAudioElement(s).src = Url(BufferCandidate(Self))
          /\ activeAudioElement(s).run = "playing"
          /\ bufferAudioElement(s) = Null
          /\ s.released \subseteq released

\* the elements that play: those of the two slots and the released ones
Playing ==
  { k \in Slots : SlotAudio(Self, k).exists /\ SlotAudio(Self, k).run = "playing" }

ReleasedPlaying == { r \in released : r.run = "playing" }

\* C9: in every reachable state at most one audio element is playing.
C9_OneSinkPlays == Cardinality(Playing) + Cardinality(ReleasedPlaying) <= 1

\* C10: currentTrack is defined if and only if the active slot holds an element
\* with a source, and that source is the url of currentTrack.
C10_CurrentIffSource ==
  /\ currentTrack # NoTrack <=> Active.exists /\ Active.src # NoSrc
  /\ currentTrack # NoTrack => Active.src = Url(currentTrack)

\* C11: in every reachable state in which isShuffled is false,
\* nonShuffledNextTracks has the tracks of nextTracks in the same order.
C11_ShadowFollows == ~isShuffled => nonShuffledNextTracks = nextTracks

\* the ids of a list of tracks
Ids(list) == { list[i] : i \in 1..Len(list) }

\* C12: the id of currentTrack occurs in none of priorityTracks, nextTracks
\* and previousTracks, and no id occurs both in previousTracks and in one of
\* the upcoming lists (for a host that plays lists of unique ids and queues no
\* priority track at all).
C12_ListsApart ==
  /\ currentTrack \notin Ids(priorityTracks) \cup Ids(nextTracks) \cup Ids(previousTracks)
  /\ Ids(previousTracks) \cap (Ids(nextTracks) \cup Ids(priorityTracks)) = {}

\* C13: every element of the two slots has its volume equal to
\* state.volume / 100 (an element's volume is kept in hundredths).
C13_VolumeApplied ==
  \A k \in Slots : SlotAudio(Self, k).exists => SlotAudio(Self, k).vol = volume

\* C14: after setRepeatMode(mode) with an active element, the element loops
\* if and only if mode is repeatOnce, and state.repeatMode is mode.
C14_LoopsOnlyOnce ==
  Active.exists
    => \A mode \in {noRepeat, repeatOnce, repeatFull} :
         /\ activeAudioElement(setRepeatMode(Self, mode)).loop = (mode = repeatOnce)
         /\ setRepeatMode(Self, mode).repeatMode = mode

\* the element of slot k plays, does not loop and has onended wired
CanEnd(k) ==
  LET a == SlotAudio(Self, k)
  IN a.exists /\ a.run = "playing" /\ ~a.pending /\ a.onended /\ ~a.loop

\* the state its onended handler leaves when it ends
EndedOn(k) ==
  onPlayerTrackEnd(
    WithSlot(Self, k, [ElReachEnd(SlotAudio(Self, k)) EXCEPT !.endedQueued = FALSE]))

\* s has the queue, the current track, the active slot and the settings other
\* than repeatMode of the current state
SameQueue(s) ==
  /\ s.currentTrack = currentTrack
  /\ s.priorityTracks = priorityTracks
  /\ s.nextTracks = nextTracks
  /\ s.previousTracks = previousTracks
  /\ s.isAudio1Active = isAudio1Active
  /\ s.isPaused = isPaused /\ s.volume = volume
  /\ s.position = position /\ s.isShuffled = isShuffled

\* C15: when an element ends while repeatMode is repeatOnce the player only
\* sets repeatMode to noRepeat, while it is repeatFull the player changes
\* nothing; in both cases currentTrack, priorityTracks, nextTracks,
\* previousTracks and isAudio1Active are unchanged, so that the queue advances
\* only when repeatMode is noRepeat.
C15_EndedRepeats ==
  \A k \in Slots :
    CanEnd(k)
      => /\ repeatMode = repeatOnce
              => EndedOn(k).repeatMode = noRepeat /\ SameQueue(EndedOn(k))
         /\ repeatMode = repeatFull
              => EndedOn(k).repeatMode = repeatFull /\ SameQueue(EndedOn(k))

\* track 1 ends with track 2 next while repeatMode is repeatOnce: the mode
\* becomes noRepeat and track 1 stays current
C15_EndsRepeatingOnce ==
  \E k \in Slots :
    /\ IsActiveSlot(Self, k) /\ CanEnd(k)
    /\ repeatMode = repeatOnce
    /\ currentTrack = 1 /\ nextTracks = <<2>>
    /\ Within(EndedOn(k))
    /\ EndedOn(k).repeatMode = noRepeat
    /\ EndedOn(k).currentTrack = 1 /\ EndedOn(k).nextTracks = <<2>>

\* what the host can call in the current state, and the events the elements
\* of the two slots can deliver: the states the handlers leave
Outcomes ==
  { setVolume(Self, v) : v \in Volumes }
    \cup { setRepeatMode(Self, mode) : mode \in {noRepeat, repeatOnce, repeatFull} }
    \cup { enableShuffle(Self, defaultShuffle(nonShuffledNextTracks, rnd)) :
             rnd \in Draws(Len(nonShuffledNextTracks)) }
    \cup { disableShuffle(Self), pause(Self), play(Self), togglePlay(Self),
           previousTrack(Self), nextTrack(Self), clearPriorityTracks(Self) }
    \cup { seek(Self, pos) : pos \in SeekPositions }
    \cup { queuePriorityTracks(Self, tracks) : tracks \in PriorityLists(Self) }
    \cup { removePriorityTrack(Self, id) : id \in Tracks }
    \cup UNION { { playTracks(Self, tracks, playIndex) : playIndex \in -1..Len(tracks) } :
                 tracks \in TrackLists }
    \cup { EndedOn(k) : k \in { j \in Slots : CanEnd(j) } }
    \cup { onPlayerProgress(Self) : k \in { j \in Slots : SlotAudio(Self, j).onprogress } }
    \cup { bufferNextTrack(Self) : k \in { j \in Slots : SlotAudio(Self, j).oncanplaythrough } }

\* if s differs from the current state in a field of PlayerState, the last
\* onStateChanged was given the state of s
Told(s) ==
  PlaybackState(s) # PlaybackState(Self) => s.notified = PlaybackState(s)

\* a handler that awaits audio.play() has told once the start has succeeded
\* or failed
Settled(s) ==
  IF activeAudioElement(s).exists /\ activeAudioElement(s).pending
  THEN /\ Told(playResolved(WithActive(s, [activeAudioElement(s) EXCEPT !.pending = FALSE])))
       /\ Told(playRejected(WithActive(s, ElPause(activeAudioElement(s)))))
  ELSE Told(s)

\* C16: every call of the host and every event of an element that changes a
\* field of PlayerState (isPaused, position, currentTrack, priorityTracks,
\* nextTracks, previousTracks, repeatMode, isShuffled, volume) ends with an
\* onStateChanged that is given the changed state, also when the start of the
\* element fails, when the queue is exhausted and when playTracks is given an
\* empty list.
C16_ChangesPublished == \A s \in Outcomes : Settled(s)

\* s has the current track and the three lists of the current state
SameLists(s) ==
  /\ s.currentTrack = currentTrack
  /\ s.priorityTracks = priorityTracks
  /\ s.nextTracks = nextTracks
  /\ s.previousTracks = previousTracks

\* the states the player is left in by an error event of an element of a slot
\* and by the rejection of a start that is awaited
Failures ==
  { onError(Self) :
      k \in { j \in Slots : SlotAudio(Self, j).exists /\ SlotAudio(Self, j).onerror } }
    \cup { playRejected(WithSlot(Self, k, ElPause(SlotAudio(Self, k)))) :
             k \in { j \in Slots : SlotAudio(Self, j).exists /\ SlotAudio(Self, j).pending } }

\* from s the three calls do what they do from any state: nextTrack() makes
\* the head of the upcoming tracks current, play() starts the active element
\* and keeps the lists, previousTrack() goes back or keeps the lists
StillWorks(s) ==
  /\ s.priorityTracks \o s.nextTracks # <<>>
       => /\ nextTrack(s).currentTrack = Head(s.priorityTracks \o s.nextTracks)
          /\ Len(nextTrack(s).priorityTracks \o nextTrack(s).nextTracks)
               = Len(s.priorityTracks \o s.nextTracks) - 1
  /\ activeAudioElement(s).exists
       => /\ activeAudioElement(play(s)).pending
          /\ play(s).currentTrack = s.currentTrack
          /\ play(s).nextTracks = s.nextTracks
          /\ play(s).previousTracks = s.previousTracks
  /\ \/ /\ previousTrack(s).currentTrack = s.currentTrack
        /\ previousTrack(s).previousTracks = s.previousTracks
        /\ previousTrack(s).nextTracks = s.nextTracks
     \/ /\ s.previousTracks # <<>>
        /\ previousTrack(s).currentTrack = Head(s.previousTracks)
        /\ previousTrack(s).previousTracks = Tail(s.previousTracks)

\* C17: an error event of an element and the rejection of the start awaited
\* in play() call onError and leave currentTrack, priorityTracks, nextTracks
\* and previousTracks as they are; nextTrack(), previousTrack() and play()
\* then do what they do from any state.
C17_ErrorsKeepQueue ==
  \A s \in Failures : s.failed /\ SameLists(s) /\ StillWorks(s)

\* the start of track 1 is awaited with track 2 next, and is rejected
C17_StartRejected ==
  /\ Active.exists /\ Active.pending /\ Active.src = Url(1)
  /\ currentTrack = 1 /\ nextTracks = <<2>>
  /\ LET s == playRejected(WithActive(Self, ElPause(Active)))
     IN /\ Within(s) /\ s.failed
        /\ s.currentTrack = 1 /\ s.nextTracks = <<2>>
        /\ nextTrack(s).currentTrack = 2

\* a part of a duration in two digits
Pad2(n) == IF n < TwoDigits THEN "0" \o ToString(n) ELSE ToString(n)

\* M:SS below an hour, H:MM:SS from an hour on, "0:00" for what is not finite
ReferenceDisplay(sec) ==
  IF ~isFinite(sec) THEN "0:00"
  ELSE IF sec.n < SecondsPerHour
    THEN ToString(sec.n \div SecondsPerMinute) \o ":" \o Pad2(sec.n % SecondsPerMinute)
  ELSE ToString(sec.n \div SecondsPerHour) \o ":"
         \o Pad2((sec.n % SecondsPerHour) \div SecondsPerMinute) \o ":"
         \o Pad2(sec.n % SecondsPerMinute)

\* C18: getTimeDisplay(s) is M:SS for every non-negative integer s below 3600
\* (minutes not padded, seconds in two digits), H:MM:SS from 3600 on (minutes
\* and seconds in two digits), and "0:00" for NaN, Infinity and -Infinity.
C18_DisplayIsReference == display # "" => display = ReferenceDisplay(seconds)

\* the element holds a handler that calls the player
HoldsCallback(a) == a.oncanplaythrough \/ a.onprogress \/ a.onended \/ a.onerror

\* C19: every operation that sets a slot to null (playNextTrack,
\* bufferNextTrack, playTracks) first clears the element's canplaythrough,
\* progress, ended and error handlers, so that no released element holds a
\* handler that can reach the player.
C19_ReleasedHoldNothing == \A r \in released : ~HoldsCallback(r)

\* C20: whenever the buffer slot holds an element with a source, that source
\* is the url of the track the next advance picks: the head of priorityTracks
\* if there is one, otherwise the head of nextTracks.
C20_StandbyIsNext ==
  Standby.exists /\ Standby.src # NoSrc
    => /\ Upcoming # << >>
       /\ Standby.src = Url(Head(Upcoming))

\* the track an advance obtains, if any
Obtained == IF Upcoming # << >> THEN Head(Upcoming) ELSE NoTrack

\* the state an advance leaves: playNextTrack without a manual track
Advanced == playNextTrack(Self, NoTrack)

\* C21 as claimed: an advance puts the old currentTrack at the front of
\* previousTracks exactly when a track is obtained and its id differs from the
\* old currentTrack's.
C21_PushesOnlyForNext ==
  Advanced.previousTracks =
    IF currentTrack # NoTrack /\ Obtained # NoTrack /\ Obtained # currentTrack
    THEN <<currentTrack>> \o previousTracks
    ELSE previousTracks

\* C21: an advance puts the old currentTrack at the front of previousTracks
\* exactly when there was one and either no track is obtained or the obtained
\* track has another id; when no track is obtained and there was a current
\* track, currentTrack becomes undefined and the state is published.
C21_AdvancePushes ==
  /\ Advanced.previousTracks =
       IF currentTrack # NoTrack /\ Obtained # currentTrack
       THEN <<currentTrack>> \o previousTracks
       ELSE previousTracks
  /\ Obtained = NoTrack /\ currentTrack # NoTrack
       => /\ Advanced.currentTrack = NoTrack
          /\ Advanced.notified = PlaybackState(Advanced)
          /\ Advanced.notified # PlaybackState(Self)

\* track 2, the last of the list 1, 2, is current and nothing is upcoming: an
\* advance moves it to the history and leaves no current track
C21_QueueExhausted ==
  /\ currentTrack = 2 /\ previousTracks = <<1>> /\ Upcoming = << >>
  /\ Active.exists
  /\ Within(Advanced)
  /\ Advanced.currentTrack = NoTrack
  /\ Advanced.previousTracks = <<2, 1>>

\* the buffer slot already holds an element with the source of the candidate
BufferedAlready ==
  /\ BufferCandidate(Self) # NoTrack
  /\ Standby.exists
  /\ Standby.src = Url(BufferCandidate(Self))

\* C22: when bufferNextTrack runs while the buffer element already has the
\* source of the next candidate, the element is neither let go nor replaced
\* and its source is not assigned again, so no load is started.
C22_BufferIdempotent ==
  BufferedAlready
    => /\ bufferNextTrack(Self).loads = 0
       /\ bufferNextTrack(Self).released = released
       /\ bufferAudioElement(bufferNextTrack(Self)).src = Standby.src

RECURSIVE Reverse(_)
Reverse(list) == IF list = << >> THEN << >> ELSE Append(Reverse(Tail(list)), Head(list))

\* the list in the order it is played: what was played, what plays, what is left
Programme ==
  Reverse(previousTracks)
    \o (IF currentTrack = NoTrack THEN << >> ELSE <<currentTrack>>)
    \o nextTracks

\* currentTrack changes only to the head of nextTracks, or to none when
\* nothing is left, and the order of the list is kept
PlaysInOrder ==
  /\ Programme' = Programme
  /\ currentTrack' # currentTrack
       => /\ currentTrack' = (IF nextTracks = << >> THEN NoTrack ELSE Head(nextTracks))
          /\ previousTracks' = (IF currentTrack = NoTrack THEN previousTracks
                                ELSE <<currentTrack>> \o previousTracks)

\* the list is played out: no current track, nothing left, nothing playing
PlayedOut ==
  /\ currentTrack = NoTrack /\ nextTracks = << >>
  /\ \A k \in Slots : SlotAudio(Self, k).run # "playing"

\* C23: after playTracks(L, 0) on a fresh player with repeatMode none, if every
\* start succeeds, every playing element ends and the host does nothing more,
\* each track of L becomes currentTrack once, in the order of L, and in the end
\* there is no current track, nextTracks is empty and nothing advances.
C23_ListPlaysOut ==
  /\ [][~Fresh => PlaysInOrder]_vars
  /\ <>[]PlayedOut

\* the tracks the player holds in s: the current one and the three lists
Held(s) ==
  (IF s.currentTrack = NoTrack THEN << >> ELSE <<s.currentTrack>>)
    \o s.priorityTracks \o s.nextTracks \o s.previousTracks

\* how often the track id occurs in the list
Count(list, id) == Cardinality({ i \in 1..Len(list) : list[i] = id })

\* s holds every track as often as the player holds it now
SameTracks(s) == \A id \in Tracks : Count(Held(s), id) = Count(Held(Self), id)

\* what nextTrack, previousTrack, an ended event, enableShuffle and
\* disableShuffle leave
Moves ==
  { nextTrack(Self), previousTrack(Self), disableShuffle(Self) }
    \cup { enableShuffle(Self, defaultShuffle(nonShuffledNextTracks, rnd)) :
             rnd \in Draws(Len(nonShuffledNextTracks)) }
    \cup { EndedOn(k) : k \in { j \in Slots : CanEnd(j) } }

\* C24: when the tracks the player holds have unique ids, nextTrack,
\* previousTrack, an ended event, enableShuffle and disableShuffle neither
\* lose nor duplicate a track: currentTrack, priorityTracks, nextTracks and
\* previousTracks together hold the same tracks before and after.
C24_TracksConserved ==
  (\A id \in Tracks : Count(Held(Self), id) <= 1)
    => \A s \in Moves : SameTracks(s)

\* C25: the ended and progress handlers are set on at most one element of
\* the two slots, the active one: the element of the buffer slot, also one
\* that was active until previousTrack went back, holds neither.
C25_OnlyActiveWired ==
  Standby.exists => ~Standby.onended /\ ~Standby.onprogress

\* no play() of an element of the two slots awaits its outcome
NoStartInFlight == \A k \in Slots : ~SlotAudio(Self, k).pending

\* C26: whenever no start is in flight, isPaused = false implies that there is
\* an active element and that it plays.
C26_UnpausedPlays ==
  NoStartInFlight /\ ~isPaused => Active.exists /\ Active.run = "playing"

====
